---- MODULE Spec2Model ----
(***************************************************************************)
(* A model of geometrize-lib's Model (model.cpp) and of its                *)
(* QuadraticBezier shape (shape/quadraticbezier.cpp).                      *)
(*                                                                         *)
(* Three specifications share the variables:                               *)
(*   SpecRaster the life of one QuadraticBezier (construct, mutate,        *)
(*              rasterize, getRawShapeData);                               *)
(*   SpecShape  the life of a QuadraticBezier and of one clone of it, on   *)
(*              smaller canvases (the same, and clone);                    *)
(*   Spec       the life of a Model (construct, reset, drawShape, step     *)
(*              with its worker threads); here shape, cloned, lines,       *)
(*              rawData and lastOp stay as they start.                     *)
(*                                                                         *)
(* core.cpp, commonutil.h, scanline.cpp and bitmap.cpp are not among the   *)
(* sources; what the model needs of them is taken from the specification   *)
(* text (sections 4.1 to 4.5).  In particular energy is modelled as        *)
(* section 4.5 words it: it blits into the canvas it is given and undoes   *)
(* the blit from the buffer, and model.cpp:78 gives it m_current.          *)
(*                                                                         *)
(* Scores: the code keeps the score as a float,                            *)
(*   sqrt(total / (w*h*4)) / 255,                                          *)
(* where total is the sum of the squared channel differences.  The model   *)
(* keeps the integer total itself, which orders scores the same way.       *)
(***************************************************************************)
EXTENDS Integers, Sequences, FiniteSets, TLC

\* ------------------------------------------------------------------ bounds

\* Canvas sizes <<w, h>> a shape is exercised on have w <= MaxWidth,
\* h <= MaxHeight and w * h <= MaxArea.
MaxWidth == 3
MaxHeight == 3
MaxArea == 6
\* A shape and its clone together are exercised on canvases of at most
\* MaxCloneArea pixels.
MaxCloneArea == 2
\* The most worker threads std::thread::hardware_concurrency() reports.
MaxThreads == 2
\* The most rounds without improvement a step's maxShapeMutations allows.
MaxAge == 1
\* The most Model operations (reset, drawShape, step) after construction.
MaxOps == 1
\* How far outside the canvas the random draws of mutate() that are
\* enumerated may land (see Draws).
DrawReach == 1

\* ------------------------------------------------------- program constants

\* quadraticbezier.cpp:20, the constructor's loop bound.
NumControlPoints == 4
\* quadraticbezier.cpp:22, the constructor's jitter, randomRange(-32, 32).
ConstructJitter == 32
\* quadraticbezier.cpp:64, mutate's jitter, randomRange(-64, 64).
MutateJitter == 64

VARIABLES
    mpc,         \* where the Model is: "new", "ctor_body", "aborted",
                 \* "mismatched", "idle", "launch", "collect"
    target,      \* Model::m_target
    current,     \* Model::m_current
    lastScore,   \* Model::m_lastScore, as the squared-error total
    maxThreads,  \* std::max(1U, std::thread::hardware_concurrency())
    call,        \* the arguments of the step() in progress
    launched,    \* getHillClimbState: the futures pushed so far
    workers,     \* the worker threads of the step, in launch order
    finished,    \* the workers in the order they returned (history)
    states,      \* getHillClimbState: the states collected so far
    results,     \* what the last step() or drawShape() returned
    modelOp,     \* the last Model operation that completed
    ops,         \* how many Model operations completed since construction
    shape,       \* a QuadraticBezier's m_controlPoints (<<>>: not constructed)
    cloned,      \* the m_controlPoints of its clone (<<>>: no clone)
    lines,       \* what the last rasterize() returned
    rawData,     \* what the last getRawShapeData() returned
    lastOp       \* the last shape operation that completed

modelVars == <<mpc, target, current, lastScore, maxThreads, call,
               launched, workers, finished, states, results, modelOp, ops>>

shapeVars == <<shape, cloned, lines, rawData, lastOp>>

vars == <<modelVars, shapeVars>>

\* ----------------------------------------------------------------- bitmaps

Coords(w, h) == (0 .. w - 1) \X (0 .. h - 1)

\* A bitmap of one colour (Bitmap(w, h, color)).
Bitmap(w, h, color) == [w |-> w, h |-> h, px |-> [p \in Coords(w, h) |-> color]]

getWidth == target.w

getHeight == target.h

\* ------------------------------------------------------------ commonutil

clamp(v, lo, hi) == IF v < lo THEN lo ELSE IF v > hi THEN hi ELSE v

\* The values randomRange(lo, hi) may return: the closed range.
randomRange(lo, hi) == lo .. hi

Abs(n) == IF n < 0 THEN -n ELSE n

Sign(n) == IF n > 0 THEN 1 ELSE IF n < 0 THEN -1 ELSE 0

\* Bresenham's line from (x1, y1) to (x2, y2), both end points included.
RECURSIVE BresenhamX(_, _, _, _, _, _, _, _)
BresenhamX(x, y, x2, ix, iy, dx, dy, error) ==
    IF x = x2 THEN <<>>
    ELSE LET bump == error >= 0 /\ (error # 0 \/ ix > 0)
             e1   == IF bump THEN error - dx ELSE error
             ny   == IF bump THEN y + iy ELSE y
             nx   == x + ix
         IN  <<<<nx, ny>>>> \o BresenhamX(nx, ny, x2, ix, iy, dx, dy, e1 + dy)

RECURSIVE BresenhamY(_, _, _, _, _, _, _, _)
BresenhamY(x, y, y2, ix, iy, dx, dy, error) ==
    IF y = y2 THEN <<>>
    ELSE LET bump == error >= 0 /\ (error # 0 \/ iy > 0)
             e1   == IF bump THEN error - dy ELSE error
             nx   == IF bump THEN x + ix ELSE x
             ny   == y + iy
         IN  <<<<nx, ny>>>> \o BresenhamY(nx, ny, y2, ix, iy, dx, dy, e1 + dx)

bresenham(x1, y1, x2, y2) ==
    LET ix == Sign(x2 - x1)
        iy == Sign(y2 - y1)
        dx == Abs(x2 - x1) * 2
        dy == Abs(y2 - y1) * 2
    IN  <<<<x1, y1>>>> \o
        (IF dx >= dy
         THEN BresenhamX(x1, y1, x2, ix, iy, dx, dy, dy - (dx \div 2))
         ELSE BresenhamY(x1, y1, y2, ix, iy, dx, dy, dx - (dy \div 2)))

\* --------------------------------------------------------------- scanlines

Scanline(y, x1, x2) == [y |-> y, x1 |-> x1, x2 |-> x2]

\* Scanline::trim: the lines clipped to the w x h rectangle, the empty ones
\* dropped, the order kept.
RECURSIVE trim(_, _, _)
trim(ls, w, h) ==
    IF ls = <<>> THEN <<>>
    ELSE LET l  == Head(ls)
             c  == Scanline(l.y, clamp(l.x1, 0, w - 1), clamp(l.x2, 0, w - 1))
             out == l.y < 0 \/ l.y >= h \/ l.x1 >= w \/ l.x2 < 0 \/ c.x1 > c.x2
         IN  (IF out THEN <<>> ELSE <<c>>) \o trim(Tail(ls), w, h)

\* -------------------------------------------------------------------- core

\* A pixel is <<r, g, b, a>>, each channel in 0 .. 255.
PixelError(t, c) ==
    (t[1] - c[1]) * (t[1] - c[1]) + (t[2] - c[2]) * (t[2] - c[2])
    + (t[3] - c[3]) * (t[3] - c[3]) + (t[4] - c[4]) * (t[4] - c[4])

RECURSIVE SumError(_, _, _)
SumError(t, c, S) ==
    IF S = {} THEN 0
    ELSE LET p == CHOOSE q \in S : TRUE
         IN  PixelError(t.px[p], c.px[p]) + SumError(t, c, S \ {p})

\* differenceFull: the sum over all pixels and all 4 channels of (t - c)^2.
differenceFull(t, c) == SumError(t, c, Coords(t.w, t.h))

\* The pixels the scanlines cover, in order, each as often as it is covered.
RECURSIVE LinePixels(_)
LinePixels(ls) ==
    IF ls = <<>> THEN <<>>
    ELSE LET l == Head(ls)
         IN  [k \in 1 .. (l.x2 - l.x1 + 1) |-> <<l.x1 + k - 1, l.y>>]
             \o LinePixels(Tail(ls))

RECURSIVE PartialSum(_, _, _, _)
PartialSum(t, before, after, ps) ==
    IF ps = <<>> THEN 0
    ELSE LET p == Head(ps)
         IN  PixelError(t.px[p], after.px[p]) - PixelError(t.px[p], before.px[p])
             + PartialSum(t, before, after, Tail(ps))

\* differencePartial: for each pixel of each scanline, the error of the
\* pixel before is taken off the total and its error after is added.
differencePartial(t, before, after, score, ls) ==
    LET total == score + PartialSum(t, before, after, LinePixels(ls))
    IN  IF total < 0 THEN 0 ELSE total

\* n / d rounded to the nearest integer, for d > 0.
RoundDiv(n, d) == (2 * n + d) \div (2 * d)

RECURSIVE ChannelSum(_, _, _, _, _)
ChannelSum(t, c, ps, k, alpha) ==
    IF ps = <<>> THEN 0
    ELSE LET p == Head(ps)
         IN  (t.px[p][k] - c.px[p][k]) * 255 + c.px[p][k] * alpha
             + ChannelSum(t, c, Tail(ps), k, alpha)

\* computeColor: per channel the average over the covered pixels of
\* (T - C) * 255 / alpha + C, rounded and clamped.
computeColor(t, c, ls, alpha) ==
    LET ps == LinePixels(ls)
        ch(k) == clamp(RoundDiv(ChannelSum(t, c, ps, k, alpha), alpha * Len(ps)),
                       0, 255)
    IN  IF alpha = 0 THEN <<0, 0, 0, 0>>
        ELSE IF ps = <<>> THEN <<0, 0, 0, alpha>>
        ELSE <<ch(1), ch(2), ch(3), alpha>>

\* One pixel under the colour, straight-alpha src-over.
Blend(p, color) ==
    LET a == color[4]
    IN  <<RoundDiv(p[1] * (255 - a) + color[1] * a, 255),
          RoundDiv(p[2] * (255 - a) + color[2] * a, 255),
          RoundDiv(p[3] * (255 - a) + color[3] * a, 255),
          RoundDiv(p[4] * 255 + a * (255 - p[4]), 255)>>

RECURSIVE DrawPixels(_, _, _)
DrawPixels(px, color, ps) ==
    IF ps = <<>> THEN px
    ELSE DrawPixels([px EXCEPT ![Head(ps)] = Blend(@, color)], color, Tail(ps))

\* drawLines: the colour blended into the canvas over the scanlines.
drawLines(canvas, color, ls) ==
    [canvas EXCEPT !.px = DrawPixels(@, color, LinePixels(ls))]

\* The pixels of src under the scanlines copied into dst.
copyLines(dst, src, ls) ==
    LET covered == { LinePixels(ls)[k] : k \in 1 .. Len(LinePixels(ls)) }
    IN  [dst EXCEPT !.px = [p \in DOMAIN dst.px |->
                               IF p \in covered THEN src.px[p] ELSE dst.px[p]]]

\* --------------------------------------------------------- QuadraticBezier

\* The control-point lists the constructor may produce on an xBound x yBound
\* canvas: a starting point, then NumControlPoints points jittered around it
\* and clamped.
QuadraticBezier(xBound, yBound) ==
    UNION { [1 .. NumControlPoints ->
                { clamp(s[1] + d, 0, xBound - 1) :
                      d \in randomRange(-ConstructJitter, ConstructJitter) }
                \X
                { clamp(s[2] + d, 0, yBound - 1) :
                      d \in randomRange(-ConstructJitter, ConstructJitter) }] :
            s \in randomRange(0, xBound) \X randomRange(0, yBound - 1) }

\* A clone() that forgets to assign the original's control points.
cloneKeepsFresh(cps, fresh) == fresh

\* clone(): a freshly constructed QuadraticBezier (control points fresh)
\* whose m_controlPoints are then assigned the original's, a copy of the
\* vector.
clone(cps, fresh) == cps

\* A mutate() that clamps to the bounds themselves, one past the last pixel.
mutateClampsToBound(cps, i, dx, dy, xBound, yBound) ==
    [cps EXCEPT ![i] = <<clamp(cps[i][1] + dx, 0, xBound),
                         clamp(cps[i][2] + dy, 0, yBound)>>]

\* A mutate() that moves the picked control point and the one after it.
mutateMovesTwo(cps, i, dx, dy, xBound, yBound) ==
    LET p == <<clamp(cps[i][1] + dx, 0, xBound - 1),
               clamp(cps[i][2] + dy, 0, yBound - 1)>>
    IN  [cps EXCEPT ![i] = p, ![(i % Len(cps)) + 1] = p]

\* mutate() with its three random draws: the index i and the two offsets.
mutate(cps, i, dx, dy, xBound, yBound) ==
    [cps EXCEPT ![i] = <<clamp(cps[i][1] + dx, 0, xBound - 1),
                         clamp(cps[i][2] + dy, 0, yBound - 1)>>]

\* The offsets among randomRange(-jitter, jitter) that move coordinate v to
\* at most DrawReach outside 0 .. bound - 1.  A draw that lands farther out
\* is clamped exactly as one of these is.
Draws(v, jitter, bound) ==
    { d \in randomRange(-jitter, jitter) :
          v + d >= -DrawReach /\ v + d <= bound - 1 + DrawReach }

\* The control-point lists one mutate() call may leave.
Mutations(cps, xBound, yBound) ==
    UNION { { mutate(cps, i, dx, dy, xBound, yBound) :
                  dx \in Draws(cps[i][1], MutateJitter, xBound),
                  dy \in Draws(cps[i][2], MutateJitter, yBound) } :
            i \in randomRange(1, Len(cps)) }

\* The points of the segments rasterize() walks: from each control point to
\* the next, and from the last one to itself.
RECURSIVE SegmentPoints(_, _)
SegmentPoints(cps, i) ==
    IF i > Len(cps) THEN <<>>
    ELSE LET m1 == cps[i]
             m2 == IF i < Len(cps) THEN cps[i + 1] ELSE cps[i]
         IN  bresenham(m1[1], m1[2], m2[1], m2[2]) \o SegmentPoints(cps, i + 1)

rasterize(cps, xBound, yBound) ==
    LET pts == SegmentPoints(cps, 1)
    IN  trim([k \in 1 .. Len(pts) |-> Scanline(pts[k][2], pts[k][1], pts[k][1])],
             xBound, yBound)

getType(cps) == "QUADRATIC_BEZIER"

getRawShapeData(cps) ==
    [k \in 1 .. 2 * Len(cps) |->
        IF k % 2 = 1 THEN cps[(k + 1) \div 2][1] ELSE cps[k \div 2][2]]

\* ------------------------------------------------- the shape specification

Black == <<0, 0, 0, 255>>

NoBitmap == Bitmap(0, 0, Black)

\* The squared-error total of a Model that has computed none.
NoScore == 0 - 1

NoCall == [alpha |-> 0, maxShapeMutations |-> 0]

ShapeSizes ==
    { d \in (1 .. MaxWidth) \X (1 .. MaxHeight) : d[1] * d[2] <= MaxArea }

\* A Model over a canvas of one of the sizes, and no shape yet.
InitOn(sizes) ==
    /\ \E d \in sizes :
          /\ target = Bitmap(d[1], d[2], Black)
          /\ current = Bitmap(d[1], d[2], Black)
    /\ lastScore = 0
    /\ mpc = "idle"
    /\ maxThreads = 1
    /\ call = NoCall
    /\ launched = 0
    /\ workers = <<>>
    /\ finished = <<>>
    /\ states = <<>>
    /\ results = <<>>
    /\ modelOp = "none"
    /\ ops = 0
    /\ shape = <<>>
    /\ cloned = <<>>
    /\ lines = <<>>
    /\ rawData = <<>>
    /\ lastOp = "none"

\* new QuadraticBezier(model)
Construct ==
    /\ shape = <<>>
    /\ \E cps \in QuadraticBezier(getWidth, getHeight) : shape' = cps
    /\ lastOp' = "construct"
    /\ lines' = <<>>
    /\ rawData' = <<>>
    /\ UNCHANGED <<modelVars, cloned>>

\* shape->mutate()
Mutate ==
    /\ shape # <<>>
    /\ \E m \in Mutations(shape, getWidth, getHeight) : shape' = m
    /\ lastOp' = "mutate"
    /\ lines' = <<>>
    /\ rawData' = <<>>
    /\ UNCHANGED <<modelVars, cloned>>

\* clone->mutate()
MutateClone ==
    /\ cloned # <<>>
    /\ \E m \in Mutations(cloned, getWidth, getHeight) : cloned' = m
    /\ lastOp' = "mutate_clone"
    /\ lines' = <<>>
    /\ rawData' = <<>>
    /\ UNCHANGED <<modelVars, shape>>

\* clone = shape->clone()
Clone ==
    /\ shape # <<>>
    /\ cloned = <<>>
    /\ \E fresh \in QuadraticBezier(getWidth, getHeight) :
          cloned' = clone(shape, fresh)
    /\ lastOp' = "clone"
    /\ lines' = <<>>
    /\ rawData' = <<>>
    /\ UNCHANGED <<modelVars, shape>>

\* The clone's last shared_ptr goes away.
Release ==
    /\ cloned # <<>>
    /\ cloned' = <<>>
    /\ lastOp' = "release"
    /\ lines' = <<>>
    /\ rawData' = <<>>
    /\ UNCHANGED <<modelVars, shape>>

\* shape->rasterize()
Rasterize ==
    /\ shape # <<>>
    /\ lines' = rasterize(shape, getWidth, getHeight)
    /\ lastOp' = "rasterize"
    /\ rawData' = <<>>
    /\ UNCHANGED <<modelVars, shape, cloned>>

\* shape->getRawShapeData()
GetRawShapeData ==
    /\ shape # <<>>
    /\ rawData' = getRawShapeData(shape)
    /\ lastOp' = "getRawShapeData"
    /\ lines' = <<>>
    /\ UNCHANGED <<modelVars, shape, cloned>>

NextShape ==
    \/ Construct
    \/ Mutate
    \/ MutateClone
    \/ Clone
    \/ Release
    \/ Rasterize
    \/ GetRawShapeData

InitShape == InitOn({ d \in ShapeSizes : d[1] * d[2] <= MaxCloneArea })

SpecShape == InitShape /\ [][NextShape]_vars

NextRaster ==
    \/ Construct
    \/ Mutate
    \/ Rasterize
    \/ GetRawShapeData

InitRaster == InitOn(ShapeSizes)

SpecRaster == InitRaster /\ [][NextRaster]_vars

\* ------------------------------------------------------- claims on shapes

InCanvas(cps) ==
    \A i \in DOMAIN cps :
        /\ 0 <= cps[i][1] /\ cps[i][1] <= getWidth - 1
        /\ 0 <= cps[i][2] /\ cps[i][2] <= getHeight - 1

\* The control points at which two lists of the same length differ.
Changed(a, b) == { i \in DOMAIN a : a[i] # b[i] }

\* C6: getRawShapeData returns exactly six integers, cx, cy, x1, y1, x2, y2:
\* the control point, the start point and the end point.
C6_SixIntegers ==
    lastOp = "getRawShapeData" =>
        /\ Len(rawData) = 6
        /\ \A k \in 1 .. 3 :
              rawData[2 * k - 1] = shape[k][1] /\ rawData[2 * k] = shape[k][2]

\* C7: on a canvas of width w > 0 and height h > 0, after construction and
\* after any sequence of mutate calls, every control point (x, y) of a shape
\* has 0 <= x <= w - 1 and 0 <= y <= h - 1.
C7_ClampClosure ==
    (getWidth > 0 /\ getHeight > 0) => InCanvas(shape) /\ InCanvas(cloned)

\* A mutate left one control point in the far corner and one in the near
\* corner of a canvas at least two pixels wide and two pixels high.
C7_Witness ==
    /\ lastOp = "mutate"
    /\ getWidth >= 2
    /\ getHeight >= 2
    /\ \E i, j \in DOMAIN shape :
          shape[i] = <<getWidth - 1, getHeight - 1>> /\ shape[j] = <<0, 0>>

\* C8: a mutate call changes at most one control point of the shape it is
\* called on, and leaves the type tag and the number of parameters
\* getRawShapeData reports as they were.
C8_MutateFrame ==
    [][/\ lastOp' = "mutate" =>
            /\ Cardinality(Changed(shape, shape')) <= 1
            /\ getType(shape') = getType(shape)
            /\ Len(getRawShapeData(shape')) = Len(getRawShapeData(shape))
       /\ lastOp' = "mutate_clone" =>
            /\ Cardinality(Changed(cloned, cloned')) <= 1
            /\ getType(cloned') = getType(cloned)
            /\ Len(getRawShapeData(cloned')) = Len(getRawShapeData(cloned))]_vars

\* A mutate moved exactly one control point of a shape away from where its
\* clone, taken before, still has it.
C8_Witness ==
    /\ lastOp = "mutate"
    /\ cloned # <<>>
    /\ Cardinality(Changed(shape, cloned)) = 1

\* C9: clone returns a shape with the original's control points, whatever
\* its own construction drew, and leaves the original alone; mutating the
\* clone leaves the original's control points unchanged, and mutating the
\* original leaves the clone's unchanged.
C9_CloneIndependence ==
    [][/\ lastOp' = "clone" => cloned' = shape /\ shape' = shape
       /\ lastOp' = "mutate_clone" => shape' = shape
       /\ lastOp' = "mutate" => cloned' = cloned]_vars

\* The clone was mutated away from the original in every control point.
C9_Witness ==
    /\ lastOp = "mutate_clone"
    /\ Cardinality(Changed(shape, cloned)) = Len(shape)

\* C10: the scanlines rasterize returns are single-pixel runs and pairwise
\* disjoint: no pixel is covered by two of them.
C10_DisjointScanlines ==
    lastOp = "rasterize" =>
        /\ \A k \in DOMAIN lines : lines[k].x1 = lines[k].x2
        /\ \A j, k \in DOMAIN lines :
              j # k => ~(/\ lines[j].y = lines[k].y
                         /\ lines[j].x1 <= lines[k].x2
                         /\ lines[k].x1 <= lines[j].x2)

\* ------------------------------------------------- the Model specification

White == <<255, 255, 255, 255>>

Clear == <<0, 0, 0, 0>>

\* The canvas sizes <<w, h>> Models are built on.
ModelSizes == { <<1, 1>>, <<2, 1>> }

\* The target bitmaps: all white, or black and white in a checkerboard.
Targets ==
    { Bitmap(d[1], d[2], White) : d \in ModelSizes }
    \cup { [w |-> d[1], h |-> d[2],
            px |-> [p \in Coords(d[1], d[2]) |->
                       IF (p[1] + p[2]) % 2 = 0 THEN Black ELSE White]] :
           d \in ModelSizes }

Backgrounds == {White, Clear}

\* The initial bitmaps: of one background colour, or a target bitmap.
Initials ==
    Targets \cup { Bitmap(d[1], d[2], c) : d \in ModelSizes, c \in Backgrounds }

Alphas == {128, 255}

\* What differenceFull may return for bitmaps of different sizes, where it
\* reads one of them with the other's coordinates.
MismatchedScores == {0, 255 * 255}

NoWorker ==
    [pc |-> "unlaunched", buffer |-> NoBitmap, state |-> <<>>, undo |-> <<>>,
     best |-> <<>>, bestE |-> 0, age |-> 0]

Init ==
    /\ mpc = "new"
    /\ maxThreads \in 1 .. MaxThreads
    /\ target = NoBitmap
    /\ current = NoBitmap
    /\ lastScore = NoScore
    /\ call = NoCall
    /\ launched = 0
    /\ workers = <<>>
    /\ finished = <<>>
    /\ states = <<>>
    /\ results = <<>>
    /\ modelOp = "none"
    /\ ops = 0
    /\ shape = <<>>
    /\ cloned = <<>>
    /\ lines = <<>>
    /\ rawData = <<>>
    /\ lastOp = "none"

stepVars == <<call, launched, workers, finished, states>>

\* Model(target, backgroundColor)
ConstructBackground ==
    /\ mpc = "new"
    /\ \E t \in Targets, c \in Backgrounds :
          /\ target' = t
          /\ current' = Bitmap(t.w, t.h, c)
          /\ lastScore' = differenceFull(t, Bitmap(t.w, t.h, c))
    /\ mpc' = "idle"
    /\ modelOp' = "construct"
    /\ UNCHANGED <<maxThreads, stepVars, results, ops, shapeVars>>

\* Model(target, initial), the member initialisers: the score is computed
\* before the constructor's body runs.
ConstructInitial ==
    /\ mpc = "new"
    /\ \E t \in Targets, i \in Initials :
          /\ target' = t
          /\ current' = i
          /\ IF t.w = i.w /\ t.h = i.h
             THEN lastScore' = differenceFull(t, i)
             ELSE lastScore' \in MismatchedScores
    /\ mpc' = "ctor_body"
    /\ UNCHANGED <<maxThreads, stepVars, results, modelOp, ops, shapeVars>>

\* Model(target, initial), the body: the two asserts, which a build with
\* NDEBUG does not have (ndebug: whether this build defines it).  A Model
\* left with bitmaps of different sizes is not followed further.
ConstructAsserts ==
    /\ mpc = "ctor_body"
    /\ \E ndebug \in BOOLEAN :
          mpc' = IF target.w = current.w /\ target.h = current.h THEN "idle"
                 ELSE IF ndebug THEN "mismatched"
                 ELSE "aborted"
    /\ modelOp' = IF mpc' = "aborted" THEN modelOp ELSE "construct"
    /\ UNCHANGED <<maxThreads, target, current, lastScore, stepVars,
                   results, ops, shapeVars>>

\* reset(backgroundColor)
Reset ==
    /\ mpc = "idle"
    /\ ops < MaxOps
    /\ \E c \in Backgrounds :
          /\ current' = Bitmap(current.w, current.h, c)
          /\ lastScore' = differenceFull(target, Bitmap(current.w, current.h, c))
    /\ modelOp' = "reset"
    /\ ops' = ops + 1
    /\ finished' = <<>>
    /\ states' = <<>>
    /\ UNCHANGED <<mpc, maxThreads, target, call, launched, workers,
                   results, shapeVars>>

\* drawShape(shape, alpha): what it leaves in m_current and m_lastScore and
\* the ShapeResult it returns.
drawShape(s, alpha) ==
    LET ls     == rasterize(s, getWidth, getHeight)
        color  == computeColor(target, current, ls, alpha)
        before == current
        after  == drawLines(current, color, ls)
        score  == differencePartial(target, before, after, lastScore, ls)
    IN  /\ current' = after
        /\ lastScore' = score
        /\ results' = <<[score |-> score, color |-> color, shape |-> s]>>

\* The shapes a caller may hold: constructed, then mutated any number of
\* times.
Shapes(w, h) == [1 .. NumControlPoints -> Coords(w, h)]

\* Model::drawShape(shape, alpha), called from outside.
DrawShape ==
    /\ mpc = "idle"
    /\ ops < MaxOps
    /\ \E s \in Shapes(getWidth, getHeight), alpha \in Alphas : drawShape(s, alpha)
    /\ modelOp' = "drawShape"
    /\ ops' = ops + 1
    /\ finished' = <<>>
    /\ states' = <<>>
    /\ UNCHANGED <<mpc, maxThreads, target, call, launched, workers,
                   shapeVars>>

\* step(shapeTypes, alpha, shapeCount, maxShapeMutations, passes) is called,
\* with shapeCount = passes = 1.  The rounds of hillClimb are followed where
\* one worker runs; where several run, each evaluates its seed shape only
\* (maxShapeMutations = 0).
StepBegin ==
    /\ mpc = "idle"
    /\ ops < MaxOps
    /\ \E alpha \in Alphas, age \in 0 .. MaxAge :
          /\ maxThreads = 1 \/ age = 0
          /\ call' = [alpha |-> alpha, maxShapeMutations |-> age]
    /\ mpc' = "launch"
    /\ launched' = 0
    /\ workers' = [i \in 1 .. maxThreads |-> NoWorker]
    /\ finished' = <<>>
    /\ states' = <<>>
    /\ UNCHANGED <<maxThreads, target, current, lastScore, results,
                   modelOp, ops, shapeVars>>

\* getHillClimbState, the first loop: std::async starts one more worker.
Launch ==
    /\ mpc = "launch"
    /\ launched' = launched + 1
    /\ workers' = [workers EXCEPT ![launched + 1].pc = "start"]
    /\ mpc' = IF launched + 1 = maxThreads THEN "collect" ELSE "launch"
    /\ UNCHANGED <<maxThreads, target, current, lastScore, call,
                   finished, states, results, modelOp, ops, shapeVars>>

\* A worker starts: its buffer is a copy of m_current, and
\* bestHillClimbState makes its seed shape.
WorkerStart(i) ==
    /\ workers[i].pc = "start"
    /\ \E seed \in QuadraticBezier(getWidth, getHeight) :
          workers' = [workers EXCEPT ![i].pc = "blit",
                                     ![i].buffer = current,
                                     ![i].state = seed]
    /\ UNCHANGED <<mpc, maxThreads, target, current, lastScore, call,
                   launched, finished, states, results, modelOp, ops, shapeVars>>

\* energy, steps 1 to 4: rasterize, solve the colour, copy the pixels of the
\* canvas under the lines into the buffer, blit the colour into the canvas.
\* The canvas is the Model's m_current, which model.cpp:78 passes.
EnergyBlit(i) ==
    /\ workers[i].pc = "blit"
    /\ LET ls    == rasterize(workers[i].state, getWidth, getHeight)
           color == computeColor(target, current, ls, call.alpha)
       IN  /\ workers' = [workers EXCEPT
                             ![i].pc = "measure",
                             ![i].buffer = copyLines(@, current, ls)]
           /\ current' = drawLines(current, color, ls)
    /\ UNCHANGED <<mpc, maxThreads, target, lastScore, call, launched,
                   finished, states, results, modelOp, ops, shapeVars>>

\* energy, steps 5 to 7: the partial difference, then the blit undone by
\* copying the buffer back; and hillClimb's use of the energy.
EnergyMeasure(i) ==
    /\ workers[i].pc = "measure"
    /\ LET w  == workers[i]
           ls == rasterize(w.state, getWidth, getHeight)
           e  == differencePartial(target, w.buffer, current, lastScore, ls)
       IN  /\ current' = copyLines(current, w.buffer, ls)
           /\ \E copy \in { clone(w.state, fresh) :
                              fresh \in QuadraticBezier(getWidth, getHeight) } :
                 workers' = [workers EXCEPT ![i] =
                     IF w.best = <<>>
                     THEN [w EXCEPT !.pc = "climb", !.best = w.state,
                                    !.bestE = e, !.age = 0]
                     ELSE IF e >= w.bestE
                     THEN [w EXCEPT !.pc = "climb", !.state = w.undo,
                                    !.age = w.age + 1]
                     ELSE [w EXCEPT !.pc = "climb",
                                    !.best = copy,
                                    !.bestE = e, !.age = 0]]
    /\ UNCHANGED <<mpc, maxThreads, target, lastScore, call, launched,
                   finished, states, results, modelOp, ops, shapeVars>>

\* hillClimb, one more round: undo = clone(state); mutate state.
WorkerMutate(i) ==
    /\ workers[i].pc = "climb"
    /\ workers[i].age < call.maxShapeMutations
    /\ \E copy \in { clone(workers[i].state, fresh) :
                       fresh \in QuadraticBezier(getWidth, getHeight) },
          m \in Mutations(workers[i].state, getWidth, getHeight) :
          workers' = [workers EXCEPT
                         ![i].pc = "blit",
                         ![i].undo = copy,
                         ![i].state = m]
    /\ UNCHANGED <<mpc, maxThreads, target, current, lastScore, call,
                   launched, finished, states, results, modelOp, ops, shapeVars>>

\* hillClimb returns State{best, bestE}; the worker's future becomes ready.
WorkerReturn(i) ==
    /\ workers[i].pc = "climb"
    /\ workers[i].age >= call.maxShapeMutations
    /\ workers' = [workers EXCEPT ![i].pc = "returned", ![i].buffer = NoBitmap,
                                  ![i].state = <<>>, ![i].undo = <<>>]
    /\ finished' = Append(finished, i)
    /\ UNCHANGED <<mpc, maxThreads, target, current, lastScore, call,
                   launched, states, results, modelOp, ops, shapeVars>>

\* getHillClimbState, the second loop: f.get() of the next future, in
\* launch order.
Collect ==
    /\ mpc = "collect"
    /\ Len(states) < maxThreads
    /\ workers[Len(states) + 1].pc = "returned"
    /\ states' = Append(states, [shape |-> workers[Len(states) + 1].best,
                                 score |-> workers[Len(states) + 1].bestE])
    /\ UNCHANGED <<mpc, maxThreads, target, current, lastScore, call,
                   launched, workers, finished, results, modelOp, ops, shapeVars>>

\* A min_element that keeps the last of several minimal states.
MinElementLast(sts) ==
    CHOOSE k \in 1 .. Len(sts) :
        /\ \A j \in 1 .. Len(sts) : sts[k].score <= sts[j].score
        /\ \A j \in (k + 1) .. Len(sts) : sts[k].score < sts[j].score

\* std::min_element with a.m_score < b.m_score: the first state no other
\* state is less than.
MinElement(sts) ==
    CHOOSE k \in 1 .. Len(sts) :
        /\ \A j \in 1 .. Len(sts) : ~(sts[j].score < sts[k].score)
        /\ \A j \in 1 .. (k - 1) : sts[k].score < sts[j].score

\* step, after getHillClimbState returned: min_element, drawShape, return.
StepFinish ==
    /\ mpc = "collect"
    /\ Len(states) = maxThreads
    /\ drawShape(states[MinElement(states)].shape, call.alpha)
    /\ mpc' = "idle"
    /\ modelOp' = "step"
    /\ ops' = ops + 1
    /\ workers' = <<>>
    /\ UNCHANGED <<maxThreads, target, call, launched, finished, states,
                   shapeVars>>

Next ==
    \/ ConstructBackground
    \/ ConstructInitial
    \/ ConstructAsserts
    \/ Reset
    \/ DrawShape
    \/ StepBegin
    \/ Launch
    \/ \E i \in DOMAIN workers : WorkerStart(i)
    \/ \E i \in DOMAIN workers : EnergyBlit(i)
    \/ \E i \in DOMAIN workers : EnergyMeasure(i)
    \/ \E i \in DOMAIN workers : WorkerMutate(i)
    \/ \E i \in DOMAIN workers : WorkerReturn(i)
    \/ Collect
    \/ StepFinish

Spec == Init /\ [][Next]_vars

\* ---------------------------------------------------- claims on the Model

\* C1: after each completed drawShape, called from outside or by step, the
\* squared-error total lastScore stands for equals the sum over all pixels
\* and all 4 channels of (target - current)^2, differenceFull(target, current).
C1_ScoreConsistency ==
    (mpc = "idle" /\ modelOp \in {"drawShape", "step"}) =>
        lastScore = differenceFull(target, current)

\* C2: the score in the ShapeResult a step returns is at most the Model's
\* lastScore right before that step.
C2_ScoreMonotonic ==
    [][(mpc = "collect" /\ mpc' = "idle") => results'[1].score <= lastScore]_vars

\* C3: while a step's workers search, from the call of step until every
\* worker's State is collected, nothing writes target, current or lastScore;
\* current and lastScore change only in the drawShape that follows.
C3_WorkersLeaveCanvas ==
    [][(mpc \in {"launch", "collect"} /\ mpc' \in {"launch", "collect"}) =>
            /\ target' = target
            /\ current' = current
            /\ lastScore' = lastScore]_vars

\* The least worker, in launch order, whose returned state has the least
\* score.
EarliestBest ==
    CHOOSE k \in DOMAIN workers :
        /\ \A j \in DOMAIN workers : workers[k].bestE <= workers[j].bestE
        /\ \A j \in DOMAIN workers :
              workers[j].bestE = workers[k].bestE => k <= j

\* C4: a step returns exactly one ShapeResult, for the shape of the state of
\* least score among the workers' states; among several of least score, the
\* one of the worker launched first, in whatever order the workers finished.
C4_StepPicksEarliestMin ==
    [][(mpc = "collect" /\ mpc' = "idle") =>
            /\ Len(results') = 1
            /\ results'[1].shape = workers[EarliestBest].best]_vars

\* A step is over in which the second worker finished first, both workers
\* returned the same score for different shapes, and the first worker's
\* shape was drawn.
C4_Witness ==
    /\ mpc = "idle"
    /\ modelOp = "step"
    /\ Len(states) = 2
    /\ finished = <<2, 1>>
    /\ states[1].score = states[2].score
    /\ states[1].shape # states[2].shape
    /\ Len(results) = 1
    /\ results[1].shape = states[1].shape

\* C5: constructing a Model from a target and an initial bitmap of another
\* width or height aborts: no score is computed over the two bitmaps and no
\* Model comes of it.
C5_MismatchAborts ==
    (mpc # "new" /\ (target.w # current.w \/ target.h # current.h)) =>
        /\ lastScore = NoScore
        /\ mpc = "aborted"

====
